---- MODULE Spec2Model ----
(***************************************************************************)
(* Model of the BioPortal ontology tagger (src/tagger.py, src/utils.py).   *)
(*                                                                         *)
(* Python strings that the code slices, strips or lower-cases (terms,      *)
(* labels, resource identifiers) are sequences of one-character strings.   *)
(* Strings the code only compares or passes on (version strings, comments, *)
(* exception classes) are TLA+ strings.                                    *)
(***************************************************************************)
EXTENDS Integers, Sequences, FiniteSets, TLC

\* ------------------------------------------------------------------ bounds
\* longest resource identifier enumerated by SpecShortId
MaxUriLen == 5
\* largest number of raw items in `terms`, and of normalized terms, per call
MaxTerms == 2

\* ------------------------------------------------------------ Python values
\* None in a position that holds a character sequence
NoneS == <<"None">>
\* None in a position that holds a version string
NoneV == "None"

\* Python truthiness of an Optional[str] held as a character sequence
TruthyS(s) == s # NoneS /\ s # <<>>
\* Python truthiness of an Optional[str] held as a TLA+ string
TruthyV(v) == v # NoneV /\ v # ""

\* ---------------------------------------------------------- str operations
UpperToLower == [c \in {"A", "B", "C", "L", "O", "Z"} |->
                   CASE c = "A" -> "a" [] c = "B" -> "b" [] c = "C" -> "c"
                     [] c = "L" -> "l" [] c = "O" -> "o" [] c = "Z" -> "z"]

\* str.lower()
Lower(s) == [i \in DOMAIN s |->
               IF s[i] \in DOMAIN UpperToLower THEN UpperToLower[s[i]] ELSE s[i]]

IsSpace(c) == c \in {" ", "\n", "\t"}

RECURSIVE LStrip(_)
LStrip(s) == IF s # <<>> /\ IsSpace(Head(s)) THEN LStrip(Tail(s)) ELSE s

RECURSIVE RStrip(_)
RStrip(s) == IF s # <<>> /\ IsSpace(s[Len(s)])
               THEN RStrip(SubSeq(s, 1, Len(s) - 1)) ELSE s

\* str.strip()
Strip(s) == RStrip(LStrip(s))

\* largest index of sep in s, 0 when sep does not occur
LastIndexOf(s, sep) ==
  LET hits == {i \in DOMAIN s : s[i] = sep}
  IN  IF hits = {} THEN 0 ELSE CHOOSE i \in hits : \A j \in hits : j <= i

\* smallest index of sep in s, 0 when sep does not occur
FirstIndexOf(s, sep) ==
  LET hits == {i \in DOMAIN s : s[i] = sep}
  IN  IF hits = {} THEN 0 ELSE CHOOSE i \in hits : \A j \in hits : i <= j

\* s.rsplit(sep, 1)[-1]: what follows the last sep, the whole of s without one
RSplitLast(s, sep) == SubSeq(s, LastIndexOf(s, sep) + 1, Len(s))

\* s.split(sep, 1)[-1]: what follows the first sep
SplitFirstTail(s, sep) == SubSeq(s, FirstIndexOf(s, sep) + 1, Len(s))

\* variant of the extraction: split instead of rsplit
ShortIdFirstSplit(ident) == SplitFirstTail(SplitFirstTail(ident, "#"), "/")

\* ident.rsplit("#", 1)[-1].rsplit("/", 1)[-1] in OwlLexicon.__init__
LexiconShortId(ident) == RSplitLast(RSplitLast(ident, "#"), "/")

\* ontology_uri.rsplit("#", 1)[-1].rsplit("/", 1)[-1] in annotate_terms
TaggerShortId(ontology_uri) == RSplitLast(RSplitLast(ontology_uri, "#"), "/")

\* str.splitlines() for the line boundary "\n"
RECURSIVE SplitLines(_)
SplitLines(s) ==
  IF s = <<>> THEN <<>>
  ELSE LET i == FirstIndexOf(s, "\n")
       IN  IF i = 0 THEN <<s>>
           ELSE <<SubSeq(s, 1, i - 1)>> \o SplitLines(SubSeq(s, i + 1, Len(s)))

\* the inner loop of normalize_terms: strip each line, keep the non-empty ones
RECURSIVE CleanLines(_)
CleanLines(lines) ==
  IF lines = <<>> THEN <<>>
  ELSE LET cleaned == Strip(Head(lines))
       IN  (IF cleaned # <<>> THEN <<cleaned>> ELSE <<>>) \o CleanLines(Tail(lines))

\* the loop over `terms` of normalize_terms: None items are skipped
RECURSIVE CollectTerms(_)
CollectTerms(terms) ==
  IF terms = <<>> THEN <<>>
  ELSE (IF Head(terms) = NoneS THEN <<>> ELSE CleanLines(SplitLines(Head(terms))))
       \o CollectTerms(Tail(terms))

\* normalize_terms raises ValueError when neither argument is given
normalize_raises(termsGiven, fileGiven) == ~termsGiven /\ ~fileGiven

\* normalize_terms(terms, file_path): the inline terms first, then the file's
\* lines. termsGiven / fileGiven say whether the argument is not None.
normalize_terms(termsGiven, terms, fileGiven, fileText) ==
  (IF termsGiven THEN CollectTerms(terms) ELSE <<>>)
  \o (IF fileGiven THEN CleanLines(SplitLines(fileText)) ELSE <<>>)

\* ------------------------------------------------------- remote catalogue
\* The ontology acronym of every call.
Ontology == "CL"

\* A submission as the service reports it: sub.get("version") and
\* sub.get("submissionId"); 0 stands for a missing submissionId.
Sub(v, id) == [version |-> v, submissionId |-> id]

\* The submission lists the service may answer list_submissions with.
Catalogs ==
  { <<>>,
    <<Sub("v1", 1)>>,
    <<Sub("v2", 2), Sub("v1", 1)>>,
    <<Sub(NoneV, 3), Sub("v1", 1)>>,
    <<Sub("v1", 0), Sub("v1", 1)>> }

\* A reply of list_submissions: the list, or a transport failure of json_get.
ListReplies == {[ok |-> TRUE, subs |-> c] : c \in Catalogs}
                 \cup {[ok |-> FALSE, subs |-> <<>>]}

\* str(sub.get("version") or "")
VersionStr(sub) == IF TruthyV(sub.version) THEN sub.version ELSE ""

\* str(sub.get("version") or "latest")
VersionOrLatest(sub) == IF TruthyV(sub.version) THEN sub.version ELSE "latest"

\* [sub for sub in submissions if str(sub.get("version") or "") == version]
Matches(submissions, version) ==
  SelectSeq(submissions, LAMBDA sub : VersionStr(sub) = version)

\* variant: the last submission of the list is taken for the latest one
LatestOfLast(submissions) ==
  IF submissions # <<>> THEN VersionOrLatest(submissions[Len(submissions)])
  ELSE "latest"

\* latest_version of annotate_terms
LatestVersion(submissions) ==
  IF submissions # <<>> THEN VersionOrLatest(submissions[1]) ELSE "latest"

\* ------------------------------------------------------------ local cache
\* dest_dir / f"{ontology}_{resolved_version}.owl"
DestPath(ontology, resolved_version) == <<ontology, resolved_version>>

NoPath == <<"None", "None">>
NoFile == "absent"

\* Payloads the download endpoint may deliver with a success status: an
\* ontology document, or bytes that do not parse as one.
Contents == {"owl_good", "owl_corrupt"}

\* Replies of requests.get: a transport error status, a JSON content type,
\* a body starting with "{", or a payload.
Responses == {"http_error", "json_content_type", "brace_body"} \cup Contents

Paths == {DestPath(Ontology, v) : v \in {"v1", "v2", "latest"}}

\* variant: the presence check of the cache is skipped
NeverCached(fs, dest_path) == FALSE

\* dest_path.exists()
Cached(fs, dest_path) == fs[dest_path] # NoFile

\* What a call of download_submission comes to.
DlResult(err, path, resolved, fs, downloaded) ==
  [err |-> err, path |-> path, resolved_version |-> resolved, files |-> fs,
   listed |-> 1, downloaded |-> downloaded]

\* if not submissions
NoSubmissionsAtAll(submissions) == submissions = <<>>

\* BioPortalClient.download_submission(ontology, version, dest_dir) on the
\* cache fs, with `reply` the answer to its list_submissions call and `resp`
\* the answer to its requests.get call (read only when the call is made).
download_submission(ontology, version, fs, reply, resp) ==
  IF ~reply.ok THEN DlResult("URLError", NoPath, NoneV, fs, 0)
  ELSE IF NoSubmissionsAtAll(reply.subs)
    THEN DlResult("OntologyVersionNotFound", NoPath, NoneV, fs, 0)
  ELSE IF TruthyV(version) /\ Matches(reply.subs, version) = <<>>
    THEN DlResult("OntologyVersionNotFound", NoPath, NoneV, fs, 0)
  ELSE
    LET submission == IF TruthyV(version) THEN Matches(reply.subs, version)[1]
                      ELSE reply.subs[1]
        resolved_version == VersionOrLatest(submission)
        dest_path == DestPath(ontology, resolved_version)
    IN  IF submission.submissionId = 0
          THEN DlResult("RuntimeError", NoPath, NoneV, fs, 0)
        ELSE IF Cached(fs, dest_path)
          THEN DlResult("", dest_path, resolved_version, fs, 0)
        ELSE IF resp = "http_error"
          THEN DlResult("HTTPError", NoPath, NoneV, fs, 1)
        ELSE IF resp \in {"json_content_type", "brace_body"}
          THEN DlResult("ValueError", NoPath, NoneV, fs, 1)
        ELSE DlResult("", dest_path, resolved_version,
                      [fs EXCEPT ![dest_path] = resp], 1)

\* --------------------------------------------------------- Release Lexicon
\* A statement of a parsed artifact: its subject (a URIRef or a blank node),
\* whether its predicate is rdfs:label, and str(obj).
Triple(kind, ident, pred, obj) ==
  [subj |-> [kind |-> kind, ident |-> ident], pred |-> pred, obj |-> obj]

\* The statements of the artifact "owl_good", in the order graph.triples
\* visits them.
GoodGraph ==
  << Triple("uri",   <<"x", "/", "A">>, "rdfs:label", <<"O", "l", "d">>),
     Triple("uri",   <<"x", "/", "A">>, "rdfs:label", <<" ", "C", "e", "l", "l">>),
     Triple("uri",   <<"x", "#", "B">>, "rdf:type",   <<"c">>),
     Triple("uri",   <<"x", "#", "B">>, "rdfs:label", <<" ">>),
     Triple("bnode", <<"b", "0">>,      "rdfs:label", <<"L", "o", " ">>),
     Triple("uri",   <<"x", "/">>,      "rdf:type",   <<"c">>) >>

\* graph.parse raises on a payload that is no ontology document
ParseFails(content) == content # "owl_good"

NoLexicon == [built |-> FALSE, labels |-> {}, ids |-> {}, id_to_label |-> {}]

\* first loop of OwlLexicon.__init__, over the rdfs:label statements;
\* id_to_label is the dict as a set of <<key, value>> pairs
RECURSIVE LabelPass(_, _)
LabelPass(triples, lex) ==
  IF triples = <<>> THEN lex
  ELSE LET t == Head(triples)
           label == Strip(t.obj)
           short_id == LexiconShortId(t.subj.ident)
       IN  IF t.pred # "rdfs:label" \/ label = <<>>
             THEN LabelPass(Tail(triples), lex)
           ELSE LabelPass(Tail(triples),
                  [lex EXCEPT
                     !.labels = @ \cup {Lower(label)},
                     !.id_to_label =
                        IF t.subj.kind = "uri"
                          THEN {p \in @ : p[1] # Lower(short_id)}
                                 \cup {<<Lower(short_id), label>>}
                        ELSE @])

\* second loop of OwlLexicon.__init__, over every statement
RECURSIVE IdPass(_, _)
IdPass(triples, lex) ==
  IF triples = <<>> THEN lex
  ELSE LET t == Head(triples)
       IN  IdPass(Tail(triples),
             IF t.subj.kind = "uri"
               THEN [lex EXCEPT !.ids = @ \cup {Lower(LexiconShortId(t.subj.ident))}]
             ELSE lex)

\* OwlLexicon(owl_path) for a payload that parses
OwlLexicon(graph) ==
  IdPass(graph, LabelPass(graph, [NoLexicon EXCEPT !.built = TRUE]))

\* OwlLexicon.has_label
has_label(lex, label) == Strip(Lower(label)) \in lex.labels

\* OwlLexicon.has_id
has_id(lex, ident) == Strip(Lower(ident)) \in lex.ids

\* OwlLexicon.get_label_by_id
get_label_by_id(lex, ident) ==
  LET key == Strip(Lower(ident))
  IN  IF \E p \in lex.id_to_label : p[1] = key
        THEN (CHOOSE p \in lex.id_to_label : p[1] = key)[2]
      ELSE NoneS

\* ------------------------------------------------------- live annotation
\* A candidate of the annotator: annotatedClass.prefLabel and annotatedClass["@id"]
Candidate(prefLabel, id) == [prefLabel |-> prefLabel, id |-> id]

CandCell == Candidate(<<"c", "e", "l", "l">>, <<"x", "/", "a">>)
CandBee  == Candidate(<<"b", "e", "e">>, <<"x", "#", "B">>)
CandLo   == Candidate(<<"L", "O">>, <<"x", "/", "Z">>)
CandZ    == Candidate(<<"z">>, <<"x", "/", "Z">>)
CandBare == Candidate(NoneS, NoneS)
CandRoot == Candidate(<<"z">>, <<"x", "/">>)

\* Replies of annotate_text: a list of candidates, most relevant first, or a
\* transport failure of json_get.
AnnotationLists ==
  { <<>>, <<CandCell, CandZ>>, <<CandBee>>, <<CandLo>>, <<CandZ>>,
    <<CandBare>>, <<CandRoot>> }

AnnotateReplies == {[ok |-> TRUE, hits |-> a] : a \in AnnotationLists}
                     \cup {[ok |-> FALSE, hits |-> <<>>]}

\* --------------------------------------------------- per-term evaluation
AnnotationOutcome(input_text, standardized_term, ontology_id, ontology_version, comment) ==
  [input_text |-> input_text, standardized_term |-> standardized_term,
   ontology_id |-> ontology_id, ontology_version |-> ontology_version,
   comment |-> comment]

\* the outcome appended when annotate_text returns no candidate
NotMatched(term) ==
  <<AnnotationOutcome(term, NoneS, NoneS, NoneV, "not matched at all")>>

\* short_id of the top candidate: None unless "@id" is truthy
ShortIdOf(top) == IF TruthyS(top.id) THEN TaggerShortId(top.id) ELSE NoneS

\* owl_lexicon and short_id and owl_lexicon.has_id(short_id)
IdInLexicon(lex, short_id) ==
  lex.built /\ TruthyS(short_id) /\ has_id(lex, short_id)

\* owl_label: looked up only when the identifier is in the lexicon
OwlLabel(lex, short_id) ==
  IF IdInLexicon(lex, short_id) THEN get_label_by_id(lex, short_id) ELSE NoneS

\* whether owl_lexicon.has_label(pref_label) is evaluated
LabelTested(lex, short_id, pref_label) ==
  lex.built /\ ~IdInLexicon(lex, short_id) /\ TruthyS(pref_label)

\* in_specified_version after the verification block
InSpecifiedVersion(lex, short_id, pref_label) ==
  \/ IdInLexicon(lex, short_id)
  \/ LabelTested(lex, short_id, pref_label) /\ has_label(lex, pref_label)

\* the lexicon methods the verification block calls for one candidate
LexiconCalls(lex, short_id, pref_label) ==
  (IF lex.built /\ TruthyS(short_id) THEN {"has_id"} ELSE {})
  \cup (IF IdInLexicon(lex, short_id) THEN {"get_label_by_id"} ELSE {})
  \cup (IF LabelTested(lex, short_id, pref_label) THEN {"has_label"} ELSE {})

\* variant: the live preferred label wins over the release's label
LiveLabelFirst(owl_label, pref_label) ==
  IF TruthyS(pref_label) THEN pref_label ELSE owl_label

\* final_standardized_term = owl_label if owl_label else pref_label
FinalStandardizedTerm(owl_label, pref_label) ==
  IF TruthyS(owl_label) THEN owl_label ELSE pref_label

\* variant: the 'absent in the specified version' test comes before the
\* 'requested version missing' test
BranchFallbackLast(v, fallback, in_specified_version, policy) ==
  IF TruthyV(v) /\ ~fallback /\ in_specified_version THEN "specified"
  ELSE IF TruthyV(v) /\ ~in_specified_version
    THEN (IF policy = "latest" THEN "latest_no_match" ELSE "strict_unmatched")
  ELSE IF TruthyV(v) /\ fallback THEN "version_missing"
  ELSE "latest"

\* variant: a concept absent from the specified version falls back to latest
\* under every policy
BranchNeverStrict(v, fallback, in_specified_version, policy) ==
  IF TruthyV(v) /\ ~fallback /\ in_specified_version THEN "specified"
  ELSE IF TruthyV(v) /\ fallback THEN "version_missing"
  ELSE IF TruthyV(v) /\ ~in_specified_version THEN "latest_no_match"
  ELSE "latest"

\* the if / elif chain that decides version and comment
Branch(v, fallback, in_specified_version, policy) ==
  IF TruthyV(v) /\ ~fallback /\ in_specified_version THEN "specified"
  ELSE IF TruthyV(v) /\ fallback THEN "version_missing"
  ELSE IF TruthyV(v) /\ ~in_specified_version
    THEN (IF policy = "latest" THEN "latest_no_match" ELSE "strict_unmatched")
  ELSE "latest"

\* resolved_version or version
ResolvedOrRequested(resolved, v) == IF TruthyV(resolved) THEN resolved ELSE v

\* variant: the strict early exit appends nothing
StrictUnmatchedDropped(term, ontology_id, ontology_version) == <<>>

\* the outcome appended by the strict early exit
StrictUnmatched(term, ontology_id, ontology_version) ==
  <<AnnotationOutcome(term, NoneS, ontology_id, ontology_version,
                      "strict mode: not matched in specified version")>>

CommentOf(branch) ==
  CASE branch = "specified" -> "matched in user specified version"
    [] branch = "version_missing" -> "requested version missing; matched in latest"
    [] branch = "latest_no_match" -> "matched in latest, no match in specified version"
    [] branch = "latest" -> "matched in latest"

\* The local state of annotate_terms that the loop body reads.
Context(v, policy, fallback, resolved, latest, lexicon) ==
  [version |-> v, on_version_missing |-> policy, version_fallback |-> fallback,
   resolved_version |-> resolved, latest_version |-> latest,
   owl_lexicon |-> lexicon]

\* One pass of the loop body of annotate_terms for `term`, given the reply
\* `annotations` of annotate_text: the outcomes it appends.
EvaluateTerm(term, annotations, ctx) ==
  IF annotations = <<>> THEN NotMatched(term)
  ELSE
    LET top == annotations[1]
        pref_label == top.prefLabel
        short_id == ShortIdOf(top)
        in_specified_version ==
          InSpecifiedVersion(ctx.owl_lexicon, short_id, pref_label)
        owl_label == OwlLabel(ctx.owl_lexicon, short_id)
        branch == Branch(ctx.version, ctx.version_fallback,
                         in_specified_version, ctx.on_version_missing)
    IN  IF branch = "strict_unmatched"
          THEN StrictUnmatched(term, short_id,
                 ResolvedOrRequested(ctx.resolved_version, ctx.version))
        ELSE <<AnnotationOutcome(term,
                 FinalStandardizedTerm(owl_label, pref_label),
                 short_id,
                 IF branch = "specified"
                   THEN ResolvedOrRequested(ctx.resolved_version, ctx.version)
                 ELSE ctx.latest_version,
                 CommentOf(branch))>>

\* the lexicon methods that pass calls
TermLexiconCalls(annotations, ctx) ==
  IF annotations = <<>> THEN {}
  ELSE LexiconCalls(ctx.owl_lexicon, ShortIdOf(annotations[1]),
                    annotations[1].prefLabel)

\* ------------------------------------------------------------------ state
VARIABLES
  pc,                 \* where the running annotate_terms call stands
  version,            \* argument `version`
  on_version_missing, \* argument `on_version_missing`
  prepared_terms,     \* normalize_terms(terms, file_path)
  submissions,        \* the list fetched at the top of annotate_terms
  latest_version,
  resolved_version,
  version_fallback,
  owl_path,
  owl_lexicon,
  idx,                \* position of the for loop in prepared_terms
  outcomes,           \* the local list `outcomes`
  returned,           \* the list handed to the caller by `return`
  error,              \* class of the exception that left annotate_terms, or ""
  failedStep,         \* the step whose failure was observed, or ""
  nList,              \* list_submissions requests sent during the call
  nDownload,          \* requests.get downloads sent during the call
  nAnnotate,          \* annotate_text requests sent during the call
  lexiconCalls,       \* lexicon methods called for the last term evaluated
  replies,            \* the candidate lists annotate_text returned, per term
  files,              \* the cache directory: path -> payload or NoFile
  dl,                 \* the last direct call of download_submission
  dlPrev,             \* the direct call before it
  uri,                \* a full resource identifier
  lexShort,           \* its short identifier as OwlLexicon.__init__ derives it
  tagShort            \* its short identifier as annotate_terms derives it

taggerVars == <<pc, version, on_version_missing, prepared_terms, submissions,
                latest_version, resolved_version, version_fallback, owl_path,
                owl_lexicon, idx, outcomes, returned, error, failedStep, nList,
                nDownload, nAnnotate, lexiconCalls, replies>>
dlVars == <<dl, dlPrev>>
idVars == <<uri, lexShort, tagShort>>
vars == <<taggerVars, files, dlVars, idVars>>

\* requested versions and policies a caller passes
Versions == {NoneV, "v1", "v2"}
Policies == {"error", "latest"}

\* raw items of `terms` and raw file texts
RawItems == { NoneS, <<" ", "a", "\n">>,
              <<"a", "\n", " ", "\n", "b", " ">>, <<" ">> }
RawTexts == { <<>>, <<"b", "\n">> }

RawTermLists == UNION {[1..n -> RawItems] : n \in 0..MaxTerms}

NoCall == [called |-> FALSE, version |-> NoneV, listOk |-> FALSE, subs |-> <<>>,
           err |-> "", path |-> NoPath, resolved_version |-> NoneV,
           downloaded |-> 0, hit |-> FALSE, content |-> NoFile,
           wrote |-> FALSE]

\* the locals of annotate_terms before a call
TaggerIdle ==
  /\ pc = "idle"
  /\ version = NoneV
  /\ on_version_missing = "error"
  /\ prepared_terms = <<>>
  /\ submissions = <<>>
  /\ latest_version = NoneV
  /\ resolved_version = NoneV
  /\ version_fallback = FALSE
  /\ owl_path = NoPath
  /\ owl_lexicon = NoLexicon
  /\ idx = 1
  /\ outcomes = <<>>
  /\ returned = <<>>
  /\ error = ""
  /\ failedStep = ""
  /\ nList = 0
  /\ nDownload = 0
  /\ nAnnotate = 0
  /\ lexiconCalls = {}
  /\ replies = <<>>

Init ==
  /\ TaggerIdle
  /\ files = [p \in Paths |-> NoFile]
  /\ dl = NoCall
  /\ dlPrev = NoCall
  /\ uri = <<>>
  /\ lexShort = NoneS
  /\ tagShort = NoneS

\* ------------------------------------------------------- annotate_terms
\* leaving annotate_terms by an exception of class cls raised at `step`
Raise(cls, step) ==
  /\ pc' = "failed"
  /\ error' = cls
  /\ failedStep' = step

\* annotate_terms is called: normalize_terms and the empty-input return
Call(termsGiven, terms, fileGiven, fileText, v, policy) ==
  /\ pc = "idle"
  /\ version' = v
  /\ on_version_missing' = policy
  /\ IF normalize_raises(termsGiven, fileGiven)
       THEN /\ Raise("ValueError", "normalize_terms")
            /\ UNCHANGED prepared_terms
     ELSE /\ Len(normalize_terms(termsGiven, terms, fileGiven, fileText)) <= MaxTerms
          /\ prepared_terms' = normalize_terms(termsGiven, terms, fileGiven, fileText)
          /\ pc' = IF prepared_terms' = <<>> THEN "done" ELSE "list"
          /\ UNCHANGED <<error, failedStep>>
  /\ UNCHANGED <<submissions, latest_version, resolved_version, version_fallback,
                 owl_path, owl_lexicon, idx, outcomes, returned, nList, nDownload,
                 nAnnotate, lexiconCalls, replies, files, dlVars, idVars>>

\* variant: every policy falls back to latest
NeverStrict(policy) == FALSE

\* the else of `if on_version_missing == "latest"`
StrictPolicy(policy) == policy # "latest"

\* submissions = self.client.list_submissions(ontology), latest_version, and
\* the version resolution up to the call of download_submission
ListSubmissions(reply) ==
  /\ pc = "list"
  /\ nList' = nList + 1
  /\ IF ~reply.ok
       THEN /\ Raise("URLError", "list_submissions")
            /\ UNCHANGED <<submissions, latest_version, version_fallback>>
     ELSE /\ submissions' = reply.subs
          /\ latest_version' = LatestVersion(reply.subs)
          /\ IF TruthyV(version) /\ Matches(reply.subs, version) = <<>>
               THEN IF StrictPolicy(on_version_missing)
                      THEN /\ Raise("OntologyVersionNotFound", "resolve")
                           /\ UNCHANGED version_fallback
                    ELSE /\ version_fallback' = TRUE
                         /\ pc' = "loop"
                         /\ UNCHANGED <<error, failedStep>>
             ELSE /\ pc' = IF TruthyV(version) THEN "download" ELSE "loop"
                  /\ UNCHANGED <<version_fallback, error, failedStep>>
  /\ UNCHANGED <<version, on_version_missing, prepared_terms, resolved_version,
                 owl_path, owl_lexicon, idx, outcomes, returned, nDownload,
                 nAnnotate, lexiconCalls, replies, files, dlVars, idVars>>

\* owl_path, resolved_version = self.client.download_submission(...)
Download(reply, resp) ==
  /\ pc = "download"
  /\ LET r == download_submission(Ontology, version, files, reply, resp)
     IN  /\ nList' = nList + r.listed
         /\ nDownload' = nDownload + r.downloaded
         /\ files' = r.files
         /\ IF r.err # ""
              THEN /\ Raise(r.err, "download_submission")
                   /\ UNCHANGED <<owl_path, resolved_version>>
            ELSE /\ owl_path' = r.path
                 /\ resolved_version' = r.resolved_version
                 /\ pc' = "parse"
                 /\ UNCHANGED <<error, failedStep>>
  /\ UNCHANGED <<version, on_version_missing, prepared_terms, submissions,
                 latest_version, version_fallback, owl_lexicon, idx, outcomes,
                 returned, nAnnotate, lexiconCalls, replies, dlVars, idVars>>

\* owl_lexicon = OwlLexicon(owl_path)
Parse ==
  /\ pc = "parse"
  /\ IF ParseFails(files[owl_path])
       THEN /\ Raise("ValueError", "OwlLexicon")
            /\ UNCHANGED owl_lexicon
     ELSE /\ owl_lexicon' = OwlLexicon(GoodGraph)
          /\ pc' = "loop"
          /\ UNCHANGED <<error, failedStep>>
  /\ UNCHANGED <<version, on_version_missing, prepared_terms, submissions,
                 latest_version, resolved_version, version_fallback, owl_path,
                 idx, outcomes, returned, nList, nDownload, nAnnotate,
                 lexiconCalls, replies, files, dlVars, idVars>>

\* variant: a failed annotation call is reported as a term without a match
AnnotateFailureSkipsTerm(term) == [raises |-> FALSE, appended |-> NotMatched(term)]

\* an exception of annotate_text is not caught in the loop
AnnotateFailure(term) == [raises |-> TRUE, appended |-> <<>>]

\* one iteration of `for term in prepared_terms`
AnnotateTerm(reply) ==
  /\ pc = "loop"
  /\ idx <= Len(prepared_terms)
  /\ nAnnotate' = nAnnotate + 1
  /\ LET term == prepared_terms[idx]
         ctx == Context(version, on_version_missing, version_fallback,
                        resolved_version, latest_version, owl_lexicon)
     IN  IF ~reply.ok /\ AnnotateFailure(term).raises
           THEN /\ Raise("URLError", "annotate_text")
                /\ UNCHANGED <<idx, outcomes, lexiconCalls, replies>>
         ELSE /\ outcomes' = outcomes \o
                   (IF reply.ok THEN EvaluateTerm(term, reply.hits, ctx)
                    ELSE AnnotateFailure(term).appended)
              /\ lexiconCalls' = (IF reply.ok THEN TermLexiconCalls(reply.hits, ctx)
                                  ELSE {})
              /\ replies' = Append(replies, reply.hits)
              /\ idx' = idx + 1
              /\ failedStep' = IF reply.ok THEN failedStep ELSE "annotate_text"
              /\ UNCHANGED <<pc, error>>
  /\ UNCHANGED <<version, on_version_missing, prepared_terms, submissions,
                 latest_version, resolved_version, version_fallback, owl_path,
                 owl_lexicon, returned, nList, nDownload, files, dlVars, idVars>>

\* return outcomes
ReturnOutcomes ==
  /\ pc = "loop"
  /\ idx > Len(prepared_terms)
  /\ pc' = "done"
  /\ returned' = outcomes
  /\ UNCHANGED <<version, on_version_missing, prepared_terms, submissions,
                 latest_version, resolved_version, version_fallback, owl_path,
                 owl_lexicon, idx, outcomes, error, failedStep, nList, nDownload,
                 nAnnotate, lexiconCalls, replies, files, dlVars, idVars>>

\* the caller has the result or the exception; the tagger is free again
Finish ==
  /\ pc \in {"done", "failed"}
  /\ pc' = "idle"
  /\ version' = NoneV
  /\ on_version_missing' = "error"
  /\ prepared_terms' = <<>>
  /\ submissions' = <<>>
  /\ latest_version' = NoneV
  /\ resolved_version' = NoneV
  /\ version_fallback' = FALSE
  /\ owl_path' = NoPath
  /\ owl_lexicon' = NoLexicon
  /\ idx' = 1
  /\ outcomes' = <<>>
  /\ returned' = <<>>
  /\ error' = ""
  /\ failedStep' = ""
  /\ nList' = 0
  /\ nDownload' = 0
  /\ nAnnotate' = 0
  /\ lexiconCalls' = {}
  /\ replies' = <<>>
  /\ UNCHANGED <<files, dlVars, idVars>>

\* a caller invokes annotate_terms with some arguments
CallAnnotateTerms ==
  /\ pc = "idle"
  /\ \E termsGiven \in BOOLEAN, terms \in RawTermLists, fileGiven \in BOOLEAN,
        fileText \in RawTexts, v \in Versions, policy \in Policies :
       Call(termsGiven, terms, fileGiven, fileText, v, policy)

\* the service answers the list_submissions request of annotate_terms
FetchSubmissions ==
  /\ pc = "list"
  /\ \E reply \in ListReplies : ListSubmissions(reply)

\* the service answers the requests of download_submission
DownloadRelease ==
  /\ pc = "download"
  /\ \E reply \in ListReplies, resp \in Responses : Download(reply, resp)

\* the service answers the annotate_text request for the next term
AnnotateNext ==
  /\ pc = "loop"
  /\ \E reply \in AnnotateReplies : AnnotateTerm(reply)

Next ==
  \/ CallAnnotateTerms
  \/ FetchSubmissions
  \/ DownloadRelease
  \/ Parse
  \/ AnnotateNext
  \/ ReturnOutcomes
  \/ Finish

Spec == Init /\ [][Next]_vars

\* ------------------------------------------- download_submission, direct
\* A client calls download_submission(Ontology, v, dest_dir) itself; dl keeps
\* what the call did and came to.
DirectDownload(v, reply, resp) ==
  /\ pc = "idle"
  /\ LET r == download_submission(Ontology, v, files, reply, resp)
     IN  /\ files' = r.files
         /\ dlPrev' = dl
         /\ dl' = [called |-> TRUE, version |-> v, listOk |-> reply.ok,
                   subs |-> reply.subs, err |-> r.err, path |-> r.path,
                   resolved_version |-> r.resolved_version,
                   downloaded |-> r.downloaded,
                   hit |-> (r.err = "" /\ files[r.path] # NoFile),
                   content |-> IF r.err = "" THEN r.files[r.path] ELSE NoFile,
                   wrote |-> (r.files # files)]
  /\ UNCHANGED <<taggerVars, idVars>>

CallDownloadSubmission ==
  \E v \in Versions, reply \in ListReplies, resp \in Responses :
    DirectDownload(v, reply, resp)

NextDownload == CallDownloadSubmission

SpecDownload == Init /\ [][NextDownload]_vars

\* ------------------------------------------------ short identifiers alone
UriChars == {"#", "/", "a", "b"}
Uris == UNION {[1..n -> UriChars] : n \in 0..MaxUriLen}

InitShortId ==
  /\ TaggerIdle
  /\ files = [p \in Paths |-> NoFile]
  /\ dl = NoCall
  /\ dlPrev = NoCall
  /\ uri \in Uris
  /\ lexShort = NoneS
  /\ tagShort = NoneS

\* OwlLexicon.__init__ derives the short identifier of a subject `uri`
LexiconDerives ==
  /\ lexShort = NoneS
  /\ lexShort' = LexiconShortId(uri)
  /\ UNCHANGED <<taggerVars, files, dlVars, uri, tagShort>>

\* annotate_terms derives the short identifier of a candidate's "@id" `uri`
TaggerDerives ==
  /\ tagShort = NoneS
  /\ tagShort' = TaggerShortId(uri)
  /\ UNCHANGED <<taggerVars, files, dlVars, uri, lexShort>>

NextShortId == LexiconDerives \/ TaggerDerives

SpecShortId == InitShortId /\ [][NextShortId]_vars

\* ============================================================== properties
\* a call of annotate_terms that has fetched its submission list
ListFetched == nList >= 1 /\ failedStep # "list_submissions"

\* the requested version equals the version string of no fetched submission
RequestedMissing ==
  /\ ListFetched
  /\ version \notin {NoneV, ""}
  /\ \A i \in DOMAIN submissions :
       (IF submissions[i].version \in {NoneV, ""} THEN ""
        ELSE submissions[i].version) # version

\* C1: a call that returns normally on a non-empty normalized term sequence
\* returns exactly one outcome per normalized term, the i-th outcome carrying
\* the i-th term as input_text: nothing dropped, merged or reordered.
C1_OneOutcomePerTerm ==
  (pc = "done" /\ prepared_terms # <<>>) =>
    /\ Len(returned) = Len(prepared_terms)
    /\ \A i \in DOMAIN prepared_terms : returned[i].input_text = prepared_terms[i]

\* C1 witness: a returned call with a duplicated term, one outcome from the
\* 'not matched at all' exit and one from the strict exit.
C1_Witness ==
  /\ pc = "done"
  /\ Len(prepared_terms) = 2
  /\ prepared_terms[1] = prepared_terms[2]
  /\ returned[1].comment = "strict mode: not matched in specified version"
  /\ returned[2].comment = "not matched at all"

\* C2: strict policy and a requested version that no fetched submission
\* carries: the call has failed with OntologyVersionNotFound, no outcome
\* exists, no term was annotated and nothing was downloaded.
C2_StrictMissingVersionFails ==
  (RequestedMissing /\ on_version_missing # "latest") =>
    /\ pc = "failed"
    /\ error = "OntologyVersionNotFound"
    /\ outcomes = <<>>
    /\ returned = <<>>
    /\ nAnnotate = 0
    /\ nDownload = 0
    /\ nList = 1

\* C2 witness: the failure, with submissions that carry another version.
C2_Witness ==
  /\ RequestedMissing
  /\ on_version_missing = "error"
  /\ submissions # <<>>
  /\ pc = "failed"
  /\ error = "OntologyVersionNotFound"

\* a call under the permissive policy whose requested version is missing
PermissiveMissing == RequestedMissing /\ on_version_missing = "latest"

FallbackComment == "requested version missing; matched in latest"

\* C3 as stated: permissive policy, requested version missing: the call
\* succeeds and every outcome's comment is the fallback comment.
C3_EveryCommentIsFallback ==
  (PermissiveMissing /\ pc = "done") =>
    \A i \in DOMAIN returned : returned[i].comment = FallbackComment

\* C3 amended: permissive policy, requested version missing: the call never
\* fails with OntologyVersionNotFound, and every outcome of a term for which
\* the live service returned a candidate has the fallback comment, while a
\* term without any candidate has the comment "not matched at all".
C3_FallbackCommentWhenMatched ==
  PermissiveMissing =>
    /\ error # "OntologyVersionNotFound"
    /\ pc \in {"loop", "done", "failed"}
    /\ \A i \in DOMAIN outcomes :
         outcomes[i].comment =
           IF replies[i] = <<>> THEN "not matched at all" ELSE FallbackComment
    /\ pc = "done" => returned = outcomes /\ Len(returned) = Len(prepared_terms)

\* C3 witness: a returned permissive call with both kinds of outcome.
C3_Witness ==
  /\ PermissiveMissing
  /\ pc = "done"
  /\ Len(returned) = 2
  /\ returned[1].comment = FallbackComment
  /\ returned[2].comment = "not matched at all"

\* a call without a requested version
NoVersionRequested == pc # "idle" /\ version \in {NoneV, ""}

\* latest_version read off the fetched list
ExpectedLatest ==
  IF submissions = <<>> THEN "latest"
  ELSE IF submissions[1].version \in {NoneV, ""} THEN "latest"
  ELSE submissions[1].version

\* no Release Lexicon was built or consulted during the call
NoLexiconUsed ==
  /\ ~owl_lexicon.built
  /\ lexiconCalls = {}
  /\ nDownload = 0
  /\ owl_path = NoPath

\* C4 as stated: no requested version: every outcome's ontology_version is
\* latest_version and no Release Lexicon is built or consulted.
C4_EveryVersionIsLatest ==
  (NoVersionRequested /\ pc = "done") =>
    /\ \A i \in DOMAIN returned : returned[i].ontology_version = ExpectedLatest
    /\ NoLexiconUsed

\* C4 amended: no requested version: every outcome of a term for which the
\* live service returned a candidate has ontology_version = latest_version
\* (the first fetched submission's version string, "latest" when the list is
\* empty or that submission has no version string); the outcome of a term
\* without a candidate has no ontology_version; no Release Lexicon is built
\* or consulted.
C4_LatestVersionWhenMatched ==
  NoVersionRequested =>
    /\ NoLexiconUsed
    /\ ListFetched =>
         \A i \in DOMAIN outcomes :
           outcomes[i].ontology_version =
             IF replies[i] = <<>> THEN NoneV ELSE ExpectedLatest
    /\ pc = "done" => returned = outcomes

\* C4 witness: a returned call without version over a two-release list, with
\* a matched and an unmatched term.
C4_Witness ==
  /\ NoVersionRequested
  /\ pc = "done"
  /\ Len(submissions) = 2
  /\ Len(returned) = 2
  /\ returned[1].ontology_version = "v2"
  /\ returned[1].comment = "matched in latest"
  /\ returned[2].ontology_version = NoneV

\* two direct calls of download_submission in sequence for the same
\* (ontology, version) and cache directory, the first one succeeding, the
\* service answering both listings alike
SameCallTwice ==
  /\ dlPrev.called /\ dl.called
  /\ dl.version = dlPrev.version
  /\ dlPrev.err = ""
  /\ dl.listOk /\ dl.subs = dlPrev.subs

\* the second call finds the file, returns what the first returned and
\* leaves the file as it was
SecondCallReusesFile ==
  /\ dl.err = ""
  /\ dl.hit
  /\ dl.downloaded = 0
  /\ ~dl.wrote
  /\ dl.path = dlPrev.path
  /\ dl.resolved_version = dlPrev.resolved_version
  /\ dl.content = dlPrev.content

\* C5 as stated: the two calls perform exactly one network download, and the
\* second call reuses the cached file.
C5_ExactlyOneDownload ==
  SameCallTwice =>
    /\ dlPrev.downloaded + dl.downloaded = 1
    /\ SecondCallReusesFile

\* C5 amended: with the service answering both listings alike, the second
\* call downloads nothing, finds the file at the cache path, returns the same
\* (path, resolved_version) and leaves the file unchanged; the two calls
\* perform exactly one network download when the file was not in the cache
\* before the first call, and none when it was.
C5_AtMostOneDownload ==
  SameCallTwice =>
    /\ dlPrev.downloaded + dl.downloaded = (IF dlPrev.hit THEN 0 ELSE 1)
    /\ SecondCallReusesFile

\* C5 witness: the first call downloaded, the second reused the file.
C5_Witness ==
  /\ SameCallTwice
  /\ dlPrev.downloaded = 1
  /\ dlPrev.wrote
  /\ dl.hit
  /\ dl.downloaded = 0
  /\ dl.path = dlPrev.path

\* C6: in an invocation with a non-empty normalized term sequence the
\* submission list is requested exactly once, also when a requested version
\* is found and downloaded.
C6_ListFetchedOnce ==
  (prepared_terms # <<>> /\ pc \in {"parse", "loop", "done", "failed"}) =>
    nList = 1

\* the short identifier as section 4.2 of the spec words it: what follows the
\* last "#" if there is one, else what follows the last "/"
HashElseSlash(ident) ==
  IF \E i \in DOMAIN ident : ident[i] = "#"
    THEN SubSeq(ident, LastIndexOf(ident, "#") + 1, Len(ident))
  ELSE SubSeq(ident, LastIndexOf(ident, "/") + 1, Len(ident))

\* what follows the last character of ident that is a "#" or a "/"
AfterLastSeparator(ident) ==
  LET seps == {i \in DOMAIN ident : ident[i] \in {"#", "/"}}
      last == IF seps = {} THEN 0 ELSE CHOOSE i \in seps : \A j \in seps : j <= i
  IN  SubSeq(ident, last + 1, Len(ident))

\* C7 as stated: both derivations give what follows the last "#" if the
\* identifier has one, else what follows the last "/".
C7_HashElseSlash ==
  /\ lexShort # NoneS => lexShort = HashElseSlash(uri)
  /\ tagShort # NoneS => tagShort = HashElseSlash(uri)

\* C7 amended: the lexicon builder and the per-term derivation compute the
\* same function, the substring after the last occurrence of either "#" or
\* "/" (so "x/A#Foo" gives "Foo" and "x/A/Bar" gives "Bar"); it is the
\* substring after the last "#" only when no "/" follows that "#": an
\* identifier with a "/" after its last "#" yields what follows that "/".
C7_AfterLastSeparator ==
  /\ lexShort # NoneS => lexShort = AfterLastSeparator(uri)
  /\ tagShort # NoneS => tagShort = AfterLastSeparator(uri)
  /\ (lexShort # NoneS /\ tagShort # NoneS) => lexShort = tagShort
  /\ (tagShort # NoneS /\ LastIndexOf(uri, "/") < LastIndexOf(uri, "#")) =>
       tagShort = HashElseSlash(uri)

\* C7 witness: both derivations done on an identifier with a "/" after its "#".
C7_Witness ==
  /\ uri = <<"a", "#", "b", "/", "a">>
  /\ lexShort = <<"a">>
  /\ tagShort = <<"a">>

\* C8: on an empty submission list download_submission fails with an error
\* of a kind other than the one for a missing version, downloads nothing and
\* writes nothing.
C8_NoSubmissionsIsDistinct ==
  (dl.called /\ dl.listOk /\ dl.subs = <<>>) =>
    /\ dl.err # ""
    /\ dl.err # "OntologyVersionNotFound"
    /\ dl.downloaded = 0
    /\ ~dl.wrote

\* C9: once a step of annotate_terms has failed (the listing, the version
\* resolution under the strict policy, the download, the parse, or the
\* annotation of the k-th term) the call has failed, nothing is returned, the
\* failed request was sent once, and the failing term has no outcome, whatever
\* outcomes the terms before it had.
C9_AllOrNothing ==
  /\ failedStep # "" =>
       /\ pc = "failed"
       /\ error # ""
       /\ returned = <<>>
  /\ pc = "failed" => returned = <<>> /\ failedStep # ""
  /\ failedStep = "list_submissions" => nList = 1 /\ nDownload = 0 /\ nAnnotate = 0
  /\ failedStep \in {"download_submission", "OwlLexicon"} =>
       nDownload <= 1 /\ nAnnotate = 0
  /\ failedStep = "annotate_text" =>
       /\ nAnnotate = idx
       /\ idx <= Len(prepared_terms)
       /\ Len(outcomes) = idx - 1
       /\ Len(replies) = idx - 1

\* C9 witness: the annotation of the second term failed after the first term
\* had its outcome.
C9_Witness ==
  /\ pc = "failed"
  /\ failedStep = "annotate_text"
  /\ idx = 2
  /\ Len(outcomes) = 1
  /\ outcomes[1].comment = "matched in user specified version"
  /\ returned = <<>>

\* The identifiers and labels of the release, read off its statements.
UriStatements == {k \in DOMAIN GoodGraph : GoodGraph[k].subj.kind = "uri"}
ReleaseIds == {Lower(AfterLastSeparator(GoodGraph[k].subj.ident)) : k \in UriStatements}
LabelStatements(id) ==
  {k \in UriStatements :
     /\ GoodGraph[k].pred = "rdfs:label"
     /\ Strip(GoodGraph[k].obj) # <<>>
     /\ Lower(AfterLastSeparator(GoodGraph[k].subj.ident)) = id}
ReleaseLabel(id) ==
  Strip(GoodGraph[CHOOSE k \in LabelStatements(id) :
                    \A j \in LabelStatements(id) : j <= k].obj)

\* the outcome of a candidate whose identifier the release holds
MatchedInRelease(outcome, cand) ==
  LET sid == AfterLastSeparator(cand.id)
  IN  /\ outcome.comment = "matched in user specified version"
      /\ outcome.ontology_version = resolved_version
      /\ resolved_version = version
      /\ outcome.ontology_id = sid
      /\ outcome.standardized_term =
           IF LabelStatements(Lower(sid)) # {} THEN ReleaseLabel(Lower(sid))
           ELSE cand.prefLabel

\* C10 as stated: with a Release Lexicon built, every term whose top
\* candidate's short identifier is in the lexicon is matched in the specified
\* version, with the release's label if it has one; the label test is used
\* only when the identifier is absent from the lexicon or the candidate has
\* none.
C10_MatchedById ==
  owl_lexicon.built =>
    /\ \A i \in DOMAIN outcomes :
         (/\ replies[i] # <<>>
          /\ replies[i][1].id # NoneS
          /\ Lower(AfterLastSeparator(replies[i][1].id)) \in ReleaseIds)
         => MatchedInRelease(outcomes[i], replies[i][1])
    /\ "has_label" \in lexiconCalls =>
         \/ replies[Len(replies)][1].id = NoneS
         \/ Lower(AfterLastSeparator(replies[Len(replies)][1].id)) \notin ReleaseIds

\* C10 amended: as C10, for candidates whose short identifier is not empty;
\* a candidate with an empty short identifier is treated as one without.
C10_MatchedByNonEmptyId ==
  owl_lexicon.built =>
    /\ \A i \in DOMAIN outcomes :
         (/\ replies[i] # <<>>
          /\ replies[i][1].id # NoneS
          /\ AfterLastSeparator(replies[i][1].id) # <<>>
          /\ Lower(AfterLastSeparator(replies[i][1].id)) \in ReleaseIds)
         => MatchedInRelease(outcomes[i], replies[i][1])
    /\ "has_label" \in lexiconCalls =>
         \/ replies[Len(replies)][1].id = NoneS
         \/ AfterLastSeparator(replies[Len(replies)][1].id) = <<>>
         \/ Lower(AfterLastSeparator(replies[Len(replies)][1].id)) \notin ReleaseIds

\* C10 witness: one term matched by identifier with the release's label in
\* place of the live one, one with the live label for want of a release label.
C10_Witness ==
  /\ owl_lexicon.built
  /\ pc = "done"
  /\ Len(returned) = 2
  /\ replies[1] # <<>> /\ replies[2] # <<>>
  /\ replies[1][1] = CandCell
  /\ returned[1].standardized_term = <<"C", "e", "l", "l">>
  /\ returned[1].ontology_id = <<"a">>
  /\ replies[2][1] = CandBee
  /\ returned[2].standardized_term = <<"b", "e", "e">>
  /\ returned[2].comment = "matched in user specified version"

\* the labels of the release, lower-cased, read off its label statements
ReleaseLabels ==
  {Lower(Strip(GoodGraph[k].obj)) :
     k \in {j \in DOMAIN GoodGraph : /\ GoodGraph[j].pred = "rdfs:label"
                                     /\ Strip(GoodGraph[j].obj) # <<>>}}

\* the candidate's short identifier, None when it has no "@id"
ShortOf(cand) ==
  IF cand.id \in {NoneS, <<>>} THEN NoneS ELSE AfterLastSeparator(cand.id)

\* neither the candidate's short identifier nor its preferred label is in
\* the release
AbsentFromRelease(cand) ==
  /\ ShortOf(cand) = NoneS \/ Lower(ShortOf(cand)) \notin ReleaseIds
  /\ cand.prefLabel = NoneS \/ Lower(Strip(cand.prefLabel)) \notin ReleaseLabels

\* the i-th term of a strict call on a found version had a live candidate
\* that the release does not hold
StrictAbsent(i) ==
  /\ owl_lexicon.built
  /\ on_version_missing # "latest"
  /\ replies[i] # <<>>
  /\ AbsentFromRelease(replies[i][1])

\* the strict outcome of such a term
StrictOutcome(outcome, cand) ==
  /\ outcome.standardized_term = NoneS
  /\ outcome.ontology_id = ShortOf(cand)
  /\ outcome.ontology_version = version
  /\ resolved_version = version
  /\ outcome.comment = "strict mode: not matched in specified version"

\* every term evaluated so far has exactly one outcome, and a returned call
\* has evaluated every term
TermsProcessed ==
  /\ Len(outcomes) = Len(replies)
  /\ pc = "loop" => Len(outcomes) = idx - 1
  /\ pc = "done" => Len(returned) = Len(prepared_terms) /\ returned = outcomes

\* C11 as stated: strict policy, requested version found: a term whose live
\* candidate has neither its short identifier nor its preferred label in the
\* lexicon yields exactly one outcome without standardized_term, with the
\* candidate's short identifier, the resolved version and the strict comment;
\* that version is never latest_version; the terms after it are processed.
C11_StrictNeverLatest ==
  owl_lexicon.built =>
    /\ TermsProcessed
    /\ \A i \in DOMAIN outcomes :
         StrictAbsent(i) =>
           /\ StrictOutcome(outcomes[i], replies[i][1])
           /\ outcomes[i].ontology_version # latest_version

\* C11 amended: as C11, the outcome's version being the resolved version and
\* so other than latest_version whenever the requested version is not itself
\* the latest one (when it is, the two are the same string).
C11_StrictUnmatchedOutcome ==
  owl_lexicon.built =>
    /\ TermsProcessed
    /\ \A i \in DOMAIN outcomes :
         StrictAbsent(i) =>
           /\ StrictOutcome(outcomes[i], replies[i][1])
           /\ version # ExpectedLatest =>
                outcomes[i].ontology_version # latest_version

\* C11 witness: a strict call on "v1", which is not the latest release: the
\* first term ends unmatched in the specified version, the second is matched.
C11_Witness ==
  /\ pc = "done"
  /\ owl_lexicon.built
  /\ on_version_missing = "error"
  /\ latest_version = "v2"
  /\ Len(returned) = 2
  /\ StrictAbsent(1)
  /\ replies[1][1] = CandZ
  /\ returned[1].comment = "strict mode: not matched in specified version"
  /\ returned[1].ontology_id = <<"Z">>
  /\ returned[1].ontology_version = "v1"
  /\ returned[2].comment = "matched in user specified version"

====
